---------------------------- MODULE Spec2Model ----------------------------
(***************************************************************************)
(* Model of st_app.py, a Streamlit page over per-month traffic records.    *)
(*                                                                         *)
(* One run of the script is a sequence of steps (pc): the cached client,   *)
(* the client guard, the sidebar, the cached load, the data-quality guards,*)
(* the KPIs and the four tabs.  Widgets are inputs drawn where the script  *)
(* reads them.  The window arithmetic and the rolling aggregate are also   *)
(* exercised alone, on wider inputs, under SpecParams and SpecRoll.        *)
(*                                                                         *)
(* Numbers: a metric value is an integer count of hundredths (QDen), so    *)
(* the 1% / 99% quantiles of winsorize are exact; a mean is the pair       *)
(* <<sum, count>>; a missing value (NaN, NaT) is the empty tuple and a     *)
(* present value x is <<x>>.  A timestamp is the number of whole hours     *)
(* since 2024-01-01 00:00 (negative in December 2023); the timestamps      *)
(* drawn lie in the last hour of 2023 and the first days of 2024.          *)
(***************************************************************************)
EXTENDS Integers, Sequences, FiniteSets, TLC

VARIABLES
    env,        \* the deployment: the MONGO_URI secret and whether the server answers
    db,         \* the collection named by the selected month, and read faults
    pc,         \* position of the script run
    client,     \* result of get_mongo_client(): "None" or "client"
    ui,         \* sidebar widgets read so far
    _df,        \* the frame the page works on
    view,       \* locals of the view block that ran last
    shown,      \* elements sent to the browser in this run
    processed,  \* tabs whose block has run
    raised,     \* "none", or the exception that ended the run
    fn_in,      \* argument of a function exercised alone
    fn_out,     \* its result
    stored,     \* the collection stored under each month of the dataset
    down,       \* whether the data source is failing right now
    resource,   \* st.cache_resource entry of get_mongo_client
    cache,      \* st.cache_data entries of load_data, one per key
    runs        \* the script run of each browser session

page_vars == <<env, db, pc, client, ui, _df, view, shown, processed, raised, fn_in, fn_out>>
cache_vars == <<stored, down, resource, cache, runs>>
vars == <<page_vars, cache_vars>>

---------------------------------------------------------------------------
(* Bounds of the model *)

\* Largest January hour drawn for a record's timestamp.
MaxHour == 47
\* Largest number of documents in the collection.
MaxDocs == 2
\* Largest number of rows of an uploaded file.
MaxExt == 2
\* Largest series length given to the window arithmetic alone.
MaxN == 800
\* Largest |k| given to _odd alone.
MaxK == 12
\* Longest residual sequence given to the rolling aggregate alone.
MaxLen == 4

---------------------------------------------------------------------------
(* Optional values *)

NaN == <<>>
Some(x) == <<x>>
IsNA(o) == o = <<>>
Val(o) == o[1]

Max2(a, b) == IF a >= b THEN a ELSE b
Min2(a, b) == IF a <= b THEN a ELSE b
Abs(x) == IF x < 0 THEN 0 - x ELSE x

RECURSIVE SumSeq(_)
SumSeq(s) == IF s = <<>> THEN 0 ELSE Head(s) + SumSeq(Tail(s))

RECURSIVE Insert(_, _)
Insert(x, s) ==
    IF s = <<>> THEN <<x>>
    ELSE IF x <= Head(s) THEN <<x>> \o s
    ELSE <<Head(s)>> \o Insert(x, Tail(s))

RECURSIVE SortInts(_)
SortInts(s) == IF s = <<>> THEN <<>> ELSE Insert(Head(s), SortInts(Tail(s)))

---------------------------------------------------------------------------
(* Program constants *)

\* winsorize(frame, cols, q=(0.01, 0.99)): the quantiles, in hundredths.
QLo == 1
QHi == 99
QDen == 100

\* st.sidebar.number_input("Max speed (km/h)", 20, 200, 160, 5): the default.
DefaultMaxSpeed == 160
\* st.sidebar.number_input("Max vehicles/hour", 200, 20000, 10000, 100)
MinMaxVolume == 200
DefaultMaxVolume == 10000

\* period = 24
period == 24

month_names == << "January", "February", "March", "April", "May", "June",
                  "July", "August", "September", "October", "November", "December" >>

\* Months whose timestamps the model draws.
Months == {"December", "January"}

MonthIndex(name) == CHOOSE i \in 1..Len(month_names) : month_names[i] = name

\* .dt.month and .dt.year of a timestamp of the modelled range.
DtMonth(t) == IF t < 0 THEN 12 ELSE 1
DtYear(t) == IF t < 0 THEN 2023 ELSE 2024

---------------------------------------------------------------------------
(* Documents *)

Ok(v) == [k |-> "ok", v |-> v]
Bad == [k |-> "bad", v |-> 0]
Absent == [k |-> "absent", v |-> 0]

\* Timestamps a document may carry: none, a malformed one, or an hour.
TsCells ==
    {Absent, Bad} \cup {Ok(h) : h \in {0 - 1, 0, 1, MaxHour}}

\* The metric fields of a document: a malformed volume, a slow and a fast
\* reading.  Raw numbers are in the record's own units.
MetricKinds ==
    { [traffic_volume |-> Bad,      average_speed |-> Ok(100), incidents |-> Ok(1)],
      [traffic_volume |-> Ok(100),  average_speed |-> Ok(200), incidents |-> Ok(0)],
      [traffic_volume |-> Ok(5000), average_speed |-> Ok(100), incidents |-> Ok(2)] }

Docs == { [Date_Time |-> t, traffic_volume |-> m.traffic_volume,
           average_speed |-> m.average_speed, incidents |-> m.incidents]
          : t \in TsCells, m \in MetricKinds }

\* A fixed enumeration of Docs, so that a collection is a sequence without
\* repeating the same content in every order.
RECURSIVE SetToSeq(_)
SetToSeq(S) ==
    IF S = {} THEN <<>>
    ELSE LET x == CHOOSE y \in S : TRUE IN <<x>> \o SetToSeq(S \ {x})

Collections == { SetToSeq(S) : S \in { T \in SUBSET Docs : Cardinality(T) <= MaxDocs } }

---------------------------------------------------------------------------
(* 2) DB connection *)

\* A get_mongo_client whose failed ping gives None without telling the user.
get_mongo_client_silent(e) ==
    IF e.secret = "missing"
    THEN [ret |-> "None", shown |-> {}, raised |-> "KeyError"]
    ELSE IF e.secret = "empty"
    THEN [ret |-> "None", shown |-> {"error: MONGO_URI not found"}, raised |-> "none"]
    ELSE IF ~e.ping
    THEN [ret |-> "None", shown |-> {}, raised |-> "none"]
    ELSE [ret |-> "client", shown |-> {}, raised |-> "none"]

\* get_mongo_client(): the secret lookup raises when the key is missing; an
\* empty URI and a failed ping are reported with st.error and give None.
get_mongo_client(e) ==
    IF e.secret = "missing"
    THEN [ret |-> "None", shown |-> {}, raised |-> "KeyError"]
    ELSE IF e.secret = "empty"
    THEN [ret |-> "None", shown |-> {"error: MONGO_URI not found"}, raised |-> "none"]
    ELSE IF ~e.ping
    THEN [ret |-> "None", shown |-> {"error: failed to connect"}, raised |-> "none"]
    ELSE [ret |-> "client", shown |-> {}, raised |-> "none"]

---------------------------------------------------------------------------
(* 3) Data load and preparation *)

EmptyFrame == [cols |-> {}, rows |-> <<>>]
Empty(f) == f.rows = <<>> \/ f.cols = {}

\* pd.to_numeric(errors='coerce'), pd.to_datetime(errors='coerce')
to_numeric(c) == IF c.k = "ok" THEN Some(c.v * QDen) ELSE NaN
to_datetime(c) == IF c.k = "ok" THEN Some(c.v) ELSE NaN

\* _standardize_columns: rename, coerce; 'datetime' is a column when some
\* document carries the key.
_standardize_columns(docs) ==
    LET hasDt == \E i \in 1..Len(docs) : docs[i].Date_Time.k # "absent"
        row(d) == [datetime       |-> to_datetime(d.Date_Time),
                   traffic_volume |-> to_numeric(d.traffic_volume),
                   average_speed  |-> to_numeric(d.average_speed),
                   incidents      |-> IF d.incidents.k = "ok" THEN Some(d.incidents.v) ELSE NaN]
    IN [cols |-> {"traffic_volume", "average_speed", "incidents"}
                 \cup (IF hasDt THEN {"datetime"} ELSE {}),
        rows |-> [i \in 1..Len(docs) |-> row(docs[i])]]

\* DataFrame.drop_duplicates(): the first of equal rows is kept.
RECURSIVE drop_duplicates(_)
drop_duplicates(rows) ==
    IF rows = <<>> THEN <<>>
    ELSE LET init == drop_duplicates(SubSeq(rows, 1, Len(rows) - 1))
             last == rows[Len(rows)]
         IN IF \E i \in 1..Len(init) : init[i] = last THEN init ELSE Append(init, last)

\* A load_data whose try block ends before the rows are prepared.
load_data_narrow_try(c, d) ==
    IF c = "None" THEN [df |-> EmptyFrame, shown |-> {}, raised |-> "none"]
    ELSE IF d.fault = "read"
    THEN [df |-> EmptyFrame, shown |-> {"error: failed to load data"}, raised |-> "none"]
    ELSE IF ~d.exists THEN [df |-> EmptyFrame, shown |-> {}, raised |-> "none"]
    ELSE IF d.docs = <<>> THEN [df |-> EmptyFrame, shown |-> {}, raised |-> "none"]
    ELSE IF d.fault = "prep"
    THEN [df |-> EmptyFrame, shown |-> {}, raised |-> "TypeError"]
    ELSE [df |-> _standardize_columns(d.docs), shown |-> {}, raised |-> "none"]

\* load_data(_client, database_name, month): every failure gives pd.DataFrame().
load_data(c, d) ==
    IF c = "None" THEN [df |-> EmptyFrame, shown |-> {}, raised |-> "none"]
    ELSE IF d.fault = "read"
    THEN [df |-> EmptyFrame, shown |-> {"error: failed to load data"}, raised |-> "none"]
    ELSE IF ~d.exists THEN [df |-> EmptyFrame, shown |-> {}, raised |-> "none"]
    ELSE IF d.docs = <<>> THEN [df |-> EmptyFrame, shown |-> {}, raised |-> "none"]
    ELSE IF d.fault = "prep"
    THEN [df |-> EmptyFrame, shown |-> {"error: failed to load data"}, raised |-> "none"]
    ELSE LET f == _standardize_columns(d.docs)
             g == IF "datetime" \in f.cols
                  THEN [f EXCEPT !.cols = @ \cup {"hour", "dow", "is_weekend", "month", "year"}]
                  ELSE f
         IN [df |-> [g EXCEPT !.rows = drop_duplicates(@)], shown |-> {}, raised |-> "none"]

\* Defined values of column c, in row order.
Defined(rows, c) ==
    LET keep == SelectSeq(rows, LAMBDA r : ~IsNA(r[c]))
    IN [i \in 1..Len(keep) |-> Val(keep[i][c])]

\* Series.quantile(q) with linear interpolation, q = qn / QDen; NaN when the
\* column has no defined value.
Quantile(xs, qn) ==
    IF xs = <<>> THEN NaN
    ELSE LET s == SortInts(xs)
             pos == qn * (Len(s) - 1)
             j == pos \div QDen
             fr == pos % QDen
         IN IF fr = 0 THEN Some(s[j + 1])
            ELSE Some(s[j + 1] + (fr * (s[j + 2] - s[j + 1])) \div QDen)

\* Series.clip(lo, hi): a missing bound does not clip, a missing value stays.
Clip(o, lo, hi) ==
    IF IsNA(o) THEN o
    ELSE LET a == IF IsNA(lo) THEN Val(o) ELSE Max2(Val(o), Val(lo))
             b == IF IsNA(hi) THEN a ELSE Min2(a, Val(hi))
         IN Some(b)

\* winsorize(frame, cols, q=(0.01, 0.99))
winsorize(f, cs) ==
    LET lo(c) == Quantile(Defined(f.rows, c), QLo)
        hi(c) == Quantile(Defined(f.rows, c), QHi)
        fix(r) == [c \in DOMAIN r |->
                     IF c \in cs /\ c \in f.cols THEN Clip(r[c], lo(c), hi(c)) ELSE r[c]]
    IN [f EXCEPT !.rows = [i \in 1..Len(f.rows) |-> fix(f.rows[i])]]

\* "Apply guards": readings above the limits become missing, then winsorize.
ApplyGuardsTo(f, max_speed, max_volume, robust_view) ==
    LET g(r) == [r EXCEPT
                   !.average_speed = IF ~IsNA(@) /\ Val(@) > max_speed * QDen THEN NaN ELSE @,
                   !.traffic_volume = IF ~IsNA(@) /\ Val(@) > max_volume * QDen THEN NaN ELSE @]
        guarded == [f EXCEPT !.rows = [i \in 1..Len(f.rows) |-> g(f.rows[i])]]
    IN IF robust_view THEN winsorize(guarded, {"traffic_volume", "average_speed"})
       ELSE guarded

---------------------------------------------------------------------------
(* The script run: client, sidebar, load, guards, KPIs *)

NoView == [kind |-> "none"]
NoUi == [selected_month |-> "January", max_speed |-> DefaultMaxSpeed,
         max_volume |-> DefaultMaxVolume, robust_view |-> TRUE,
         selected_regions |-> {"(All)"}]

\* A freshly started server holding one session: nothing is cached yet.
ColdCaches ==
    /\ stored = <<>> /\ down = FALSE /\ resource = "unset"
    /\ cache = <<>> /\ runs = <<>>

\* A deployment that yields no client never reads the collection, and a read
\* that fails never looks at the documents: only a healthy deployment and a
\* clean read are paired with every collection content.
Healthy == [secret |-> "set", ping |-> TRUE]
NoCollection == [exists |-> FALSE, docs |-> <<>>, fault |-> "none"]

Init ==
    /\ env \in [secret : {"missing", "empty", "set"}, ping : BOOLEAN]
    /\ db \in [exists : BOOLEAN, docs : Collections, fault : {"none", "read", "prep"}]
    /\ env # Healthy => db = NoCollection
    /\ (~db.exists \/ db.fault # "none") => Len(db.docs) <= 1
    /\ pc = "start"
    /\ client = "None"
    /\ ui = NoUi
    /\ _df = EmptyFrame
    /\ view = NoView
    /\ shown = {}
    /\ processed = {}
    /\ raised = "none"
    /\ fn_in = <<>>
    /\ fn_out = <<>>
    /\ ColdCaches

\* client = get_mongo_client()
GetClient ==
    /\ pc = "start"
    /\ LET r == get_mongo_client(env)
       IN /\ client' = r.ret
          /\ shown' = shown \cup r.shown
          /\ raised' = r.raised
          /\ pc' = IF r.raised # "none" THEN "crashed" ELSE "client_guard"
    /\ UNCHANGED <<env, db, ui, _df, view, processed, fn_in, fn_out>>
    /\ UNCHANGED cache_vars

\* if not client: st.stop()
ClientGuard ==
    /\ pc = "client_guard"
    /\ pc' = IF client = "None" THEN "stopped" ELSE "sidebar"
    /\ UNCHANGED <<env, db, client, ui, _df, view, shown, processed, raised, fn_in, fn_out>>
    /\ UNCHANGED cache_vars

\* The sidebar widgets: month, limits, robust view.
Sidebar ==
    /\ pc = "sidebar"
    /\ \E m \in Months, mv \in {MinMaxVolume, DefaultMaxVolume}, rv \in BOOLEAN :
         ui' = [selected_month |-> m, max_speed |-> DefaultMaxSpeed,
                max_volume |-> mv, robust_view |-> rv,
                selected_regions |-> {"(All)"}]
    /\ pc' = "load"
    /\ UNCHANGED <<env, db, client, _df, view, shown, processed, raised, fn_in, fn_out>>
    /\ UNCHANGED cache_vars

\* _df = load_data(...); if _df.empty: st.warning(...); st.stop()
Load ==
    /\ pc = "load"
    /\ LET r == load_data(client, db)
       IN /\ raised' = r.raised
          /\ _df' = r.df
          /\ IF r.raised # "none"
             THEN /\ shown' = shown \cup r.shown
                  /\ pc' = "crashed"
             ELSE IF Empty(r.df)
             THEN /\ shown' = shown \cup r.shown \cup {"warning: no data found"}
                  /\ pc' = "stopped"
             ELSE /\ shown' = shown \cup r.shown
                  /\ pc' = "guards"
    /\ UNCHANGED <<env, db, client, ui, view, processed, fn_in, fn_out>>
    /\ UNCHANGED cache_vars

\* regions = ["(All)"] + sorted(region names of the frame): the documents
\* drawn carry no region_name, so "(All)" is the only option.
regions(f) == {"(All)"}

\* Apply guards, then the region filter: the multiselect starts as ["(All)"]
\* and the user may clear it; without "(All)" the filter indexes the column
\* region_name, which raises KeyError on a frame that lacks it.
ApplyGuards ==
    /\ pc = "guards"
    /\ _df' = ApplyGuardsTo(_df, ui.max_speed, ui.max_volume, ui.robust_view)
    /\ \E selected_regions \in SUBSET regions(_df) :
         /\ ui' = [ui EXCEPT !.selected_regions = selected_regions]
         /\ IF "(All)" \notin selected_regions /\ "region_name" \notin _df.cols
            THEN raised' = "KeyError" /\ pc' = "crashed"
            ELSE raised' = raised /\ pc' = "kpi"
    /\ UNCHANGED <<env, db, client, view, shown, processed, fn_in, fn_out>>
    /\ UNCHANGED cache_vars

\* The five KPI metrics.
Coverage(f) ==
    LET ts == Defined(f.rows, "datetime")
        s == SortInts(ts)
    IN IF "datetime" \in f.cols /\ ts # <<>>
       THEN Some((s[Len(s)] - s[1]) \div 24 + 1)
       ELSE NaN

KPIs ==
    /\ pc = "kpi"
    /\ view' = [kind |-> "kpi",
                rows |-> Len(_df.rows),
                total_volume |-> SumSeq(Defined(_df.rows, "traffic_volume")) \div QDen,
                incidents |-> SumSeq(Defined(_df.rows, "incidents")),
                coverage_days |-> Coverage(_df)]
    /\ shown' = shown \cup {"kpi"}
    /\ pc' = "tab_time"
    /\ UNCHANGED <<env, db, client, ui, _df, processed, raised, fn_in, fn_out>>
    /\ UNCHANGED cache_vars

---------------------------------------------------------------------------
(* Resampler *)

SetMin(S) == CHOOSE x \in S : \A y \in S : x <= y
SetMax(S) == CHOOSE x \in S : \A y \in S : x >= y

\* The bucket of timestamp t on the hourly ('H') or daily ('D') grid.
Bucket(t, rule) == IF rule = "H" THEN t ELSE t \div 24

\* Rows whose index value is a timestamp: resample leaves NaT rows out.
Stamped(rows) == SelectSeq(rows, LAMBDA r : ~IsNA(r.datetime))

\* A mean that reports 0 for a bucket without defined values.
AggMean_zero(rows, c) ==
    LET xs == Defined(rows, c)
    IN IF xs = <<>> THEN Some(<<0, 1>>) ELSE Some(<<SumSeq(xs), Len(xs)>>)

\* 'mean' of the defined values of column c among rows: missing when none.
AggMean(rows, c) ==
    LET xs == Defined(rows, c)
    IN IF xs = <<>> THEN NaN ELSE Some(<<SumSeq(xs), Len(xs)>>)

\* 'sum' of the defined values of column c among rows: 0 when none.
AggSum(rows, c) == Some(SumSeq(Defined(rows, c)))

Agg(how, rows, c) == IF how = "sum" THEN AggSum(rows, c) ELSE AggMean(rows, c)

\* .set_index('datetime').sort_index().resample(rule).agg(aggs): one cell per
\* bucket from the earliest to the latest timestamp; empty without timestamps.
\* The grid is kept as its bounds and the cells of the buckets that hold
\* rows; GridCell gives the cell of any bucket of the grid.
Resample(rows, rule, aggs) ==
    LET st == Stamped(rows)
        bs == { Bucket(Val(st[i].datetime), rule) : i \in 1..Len(st) }
    IN IF bs = {} THEN [lo |-> 0, hi |-> 0 - 1, aggs |-> aggs, filled |-> <<>>]
       ELSE [lo |-> SetMin(bs), hi |-> SetMax(bs), aggs |-> aggs,
             filled |-> [b \in bs |->
                          LET inb == SelectSeq(st, LAMBDA r : Bucket(Val(r.datetime), rule) = b)
                          IN [c \in DOMAIN aggs |-> Agg(aggs[c], inb, c)]]]

\* The cell of bucket b: a bucket without rows aggregates no rows.
GridCell(g, b) ==
    IF b \in DOMAIN g.filled THEN g.filled[b]
    ELSE [c \in DOMAIN g.aggs |-> Agg(g.aggs[c], <<>>, c)]

GridLen(g) == g.hi - g.lo + 1

\* Series.ffill(): each bucket takes the last defined value at or before it.
FFill(g, c) ==
    [b \in g.lo..g.hi |->
        LET js == { j \in DOMAIN g.filled : j <= b /\ ~IsNA(g.filled[j][c]) }
        IN IF ~IsNA(GridCell(g, b)[c]) THEN GridCell(g, b)[c]
           ELSE IF js = {} THEN NaN ELSE g.filled[SetMax(js)][c]]

---------------------------------------------------------------------------
(* Time tab: the month's series *)

\* df_m = _df[_df['datetime'].dt.month == month_num]
MonthRows(f, month_num) ==
    SelectSeq(f.rows, LAMBDA r : ~IsNA(r.datetime) /\ DtMonth(Val(r.datetime)) = month_num)

\* years = sorted(df_m['datetime'].dt.year.dropna().unique())
Years(rows) == { DtYear(Val(rows[i].datetime)) : i \in 1..Len(rows) }

YearRows(rows, y) == SelectSeq(rows, LAMBDA r : DtYear(Val(r.datetime)) = y)

\* def _win(n): return int(np.clip(max(3, n // 20), 3, 24))
_win(n) == Min2(Max2(Max2(3, n \div 20), 3), 24)

\* The first block of TAB_TIME.  The chart traces (moving averages, marked
\* extremes) are derived from ts for display only and stand as one element.
TimeSeriesView ==
    /\ pc = "tab_time"
    /\ processed' = processed \cup {"time_series"}
    /\ pc' = "tab_decomp"
    /\ IF "datetime" \notin _df.cols
       THEN /\ view' = [kind |-> "ts", state |-> "no_datetime"]
            /\ shown' = shown \cup {"info: no datetime available"}
       ELSE LET month_num == MonthIndex(ui.selected_month)
                df_m == MonthRows(_df, month_num)
                years == Years(df_m)
            IN IF years = {}
               THEN /\ view' = [kind |-> "ts", state |-> "no_rows"]
                    /\ shown' = shown \cup {"info: no rows for selected month"}
               ELSE \E gran \in {"Hourly", "Daily"} :
                      LET focus_year == SetMax(years)
                          df_f == YearRows(df_m, focus_year)
                          rule == IF gran = "Hourly" THEN "H" ELSE "D"
                          ts == Resample(df_f, rule,
                                         [traffic_volume |-> "mean", average_speed |-> "mean"])
                      IN /\ view' = [kind |-> "ts", state |-> "chart", rule |-> rule,
                                     src |-> df_f, ts |-> ts, w |-> _win(GridLen(ts))]
                         /\ shown' = shown \cup {"chart: volume", "chart: speed"}
    /\ UNCHANGED <<env, db, client, ui, _df, raised, fn_in, fn_out>>
    /\ UNCHANGED cache_vars

---------------------------------------------------------------------------
(* Time tab: decomposition *)

\* An _odd without the floor of 3.
_odd_nofloor(k) == IF k % 2 = 1 THEN k ELSE k + 1

\* An _odd that rounds an even value down.
_odd_down(k) == LET k3 == Max2(3, k) IN IF k3 % 2 = 1 THEN k3 ELSE k3 - 1

\* def _odd(k): k = int(max(3, k)); return k if k % 2 == 1 else k + 1
_odd(k) == LET k3 == Max2(3, k) IN IF k3 % 2 = 1 THEN k3 ELSE k3 + 1

\* seasonal_w = _odd(min(max(11, period), max(7, n // 8)))
seasonal_w(n) == _odd(Min2(Max2(11, period), Max2(7, n \div 8)))

\* A trend window that is clamped but not made odd.
trend_w_clamped(n) == Min2(Max2(35, period * 5), Max2(7, n \div 2))

\* trend_w = _odd(min(max(35, period * 5), max(7, n // 2)))
trend_w(n) == _odd(Min2(Max2(35, period * 5), Max2(7, n \div 2)))

\* A guard that asks for one period only.
Enough_one_period(n) == n >= period

\* if n >= 48
Enough(n) == n >= 48

\* STL(ts_hourly, period=period, seasonal=seasonal_w, trend=trend_w, robust=True)
StlParams(n) ==
    [period |-> period, seasonal |-> seasonal_w(n), trend |-> trend_w(n), robust |-> TRUE]

\* max_win = int(min(168, n))
max_win(n) == Min2(168, n)

\* Defined values of series s (a sequence of optional numbers) in a window.
InWindow(s, i, w) ==
    LET keep == SelectSeq(SubSeq(s, Max2(1, i - w + 1), i), LAMBDA o : ~IsNA(o))
    IN [j \in 1..Len(keep) |-> Val(keep[j])]

\* series.rolling(w, min_periods=1).<stat>() at position i.  mean is the pair
\* <<sum, count>>; std (ddof = 1) is given by its square as the pair
\* <<count * sum of squares - sum^2, count * (count - 1)>>.
RollingAt(s, i, w, stat) ==
    LET xs == InWindow(s, i, w)
        n == Len(xs)
        sm == SumSeq(xs)
        sq == SumSeq([j \in 1..n |-> xs[j] * xs[j]])
    IN IF n = 0 THEN NaN
       ELSE IF stat = "sum" THEN Some(sm)
       ELSE IF stat = "mean" THEN Some(<<sm, n>>)
       ELSE IF n < 2 THEN NaN
       ELSE Some(<<n * sq - sm * sm, n * (n - 1)>>)

Rolling(s, w, stat) == [i \in 1..Len(s) |-> RollingAt(s, i, w, stat)]

\* resid.abs()
AbsSeries(s) == [i \in 1..Len(s) |-> IF IsNA(s[i]) THEN NaN ELSE Some(Abs(Val(s[i])))]

\* An abs_sum taken as the absolute value of the rolling sum.
resid_roll_abs_after(resid, roll_h, roll_stat) ==
    IF roll_stat = "abs_sum" THEN AbsSeries(Rolling(resid, roll_h, "sum"))
    ELSE Rolling(resid, roll_h, roll_stat)

\* resid_roll = (resid.abs().rolling(roll_h, min_periods=1).sum()
\*               if roll_stat == "abs_sum"
\*               else getattr(resid.rolling(roll_h, min_periods=1), roll_stat)())
resid_roll(resid, roll_h, roll_stat) ==
    IF roll_stat = "abs_sum" THEN Rolling(AbsSeries(resid), roll_h, "sum")
    ELSE Rolling(resid, roll_h, roll_stat)

RollStats == {"mean", "sum", "std", "abs_sum"}

\* What the statistics library returns for the residual of a series of
\* length n.  STL gives a value at every position of a gap-free input and
\* propagates a missing input to every position; seasonal_decompose leaves the
\* half-window (period // 2) at each edge undefined.
LibResid(n, algo, gapfree) ==
    LET pat == <<0 - 5, 5, 0 - 3>>
    IN [i \in 1..n |->
          IF algo = "STL" THEN (IF gapfree THEN Some(pat[(i % 3) + 1]) ELSE NaN)
          ELSE IF i <= period \div 2 \/ i > n - period \div 2 THEN NaN
          ELSE Some(pat[(i % 3) + 1])]

\* A series with one point per record instead of one per hourly bucket.
ts_hourly_per_record(df_my) ==
    LET st == Stamped(df_my) IN [i \in 1..Len(st) |-> st[i].traffic_volume]

\* ts_hourly = df_my.set_index('datetime').sort_index()['traffic_volume']
\*                 .resample('H').mean().ffill()
ts_hourly(df_my) ==
    LET g == Resample(df_my, "H", [traffic_volume |-> "mean"])
        f == FFill(g, "traffic_volume")
    IN [i \in 1..GridLen(g) |-> f[g.lo + i - 1]]

GapFree(s) == \A i \in 1..Len(s) : ~IsNA(s[i])

Algos == {"STL", "Seasonal Decompose"}

\* The second block of TAB_TIME.
DecompView ==
    /\ pc = "tab_decomp"
    /\ processed' = processed \cup {"decomposition"}
    /\ IF "datetime" \notin _df.cols
       THEN /\ view' = [kind |-> "dec", state |-> "hidden"]
            /\ UNCHANGED <<shown, raised>>
            /\ pc' = "tab_spatial"
       ELSE LET month_num == MonthIndex(ui.selected_month)
                df_m == MonthRows(_df, month_num)
                years == Years(df_m)
            IN IF years = {}
               THEN /\ view' = [kind |-> "dec", state |-> "no_rows"]
                    /\ shown' = shown \cup {"info: no rows for the selected month"}
                    /\ UNCHANGED raised
                    /\ pc' = "tab_spatial"
               ELSE \E algo \in Algos :
                      LET decomp_year == SetMax(years)
                          df_my == YearRows(df_m, decomp_year)
                          tsh == ts_hourly(df_my)
                          n == Len(tsh)
                      IN IF Enough(n)
                         THEN IF algo # "STL" /\ ~GapFree(tsh)
                              THEN \* seasonal_decompose refuses missing values
                                   /\ view' = [kind |-> "dec", state |-> "raised", algo |-> algo,
                                               src |-> df_my, n |-> n, ts_hourly |-> tsh]
                                   /\ raised' = "ValueError"
                                   /\ UNCHANGED shown
                                   /\ pc' = "crashed"
                              ELSE \E roll_h \in {3, Min2(24, max_win(n))},
                                      roll_stat \in RollStats :
                                     LET resid == LibResid(n, algo, GapFree(tsh))
                                     IN /\ view' = [kind |-> "dec", state |-> "decomposed",
                                                    algo |-> algo, src |-> df_my, n |-> n,
                                                    ts_hourly |-> tsh,
                                                    params |-> IF algo = "STL" THEN <<StlParams(n)>> ELSE <<>>,
                                                    roll_h |-> roll_h, roll_stat |-> roll_stat,
                                                    resid_roll |-> resid_roll(resid, roll_h, roll_stat)]
                                        /\ shown' = shown \cup {"chart: decomposition"}
                                                     \cup (IF algo = "STL" THEN {"caption: STL params"} ELSE {})
                                        /\ UNCHANGED raised
                                        /\ pc' = "tab_spatial"
                         ELSE /\ view' = [kind |-> "dec", state |-> "insufficient", algo |-> algo,
                                          src |-> df_my, n |-> n, ts_hourly |-> tsh]
                              /\ shown' = shown \cup {"info: not enough hourly points (need >= 48)"}
                              /\ UNCHANGED raised
                              /\ pc' = "tab_spatial"
    /\ UNCHANGED <<env, db, client, ui, _df, fn_in, fn_out>>
    /\ UNCHANGED cache_vars

---------------------------------------------------------------------------
(* Spatial and trend tabs *)

\* The documents drawn carry no coordinates and no region name.
SpatialView ==
    /\ pc = "tab_spatial"
    /\ processed' = processed \cup {"spatial"}
    /\ view' = [kind |-> "spatial",
                state |-> IF {"latitude", "longitude", "traffic_volume"} \subseteq _df.cols
                          THEN "map" ELSE "no_geo"]
    /\ shown' = shown \cup (IF {"latitude", "longitude", "traffic_volume"} \subseteq _df.cols
                            THEN {"map"} ELSE {"info: no coordinates"})
                      \cup (IF "region_name" \in _df.cols
                            THEN {"table: regional summary"} ELSE {"info: no region_name"})
    /\ pc' = "tab_trend"
    /\ UNCHANGED <<env, db, client, ui, _df, raised, fn_in, fn_out>>
    /\ UNCHANGED cache_vars

\* Either metric of the radio is a column of every loaded frame, so the two
\* charts depend only on the derived time columns.
TrendView ==
    /\ pc = "tab_trend"
    /\ processed' = processed \cup {"trend"}
    /\ view' = [kind |-> "trend"]
    /\ shown' = shown
         \cup (IF {"dow", "hour", "traffic_volume", "average_speed"} \subseteq _df.cols
               THEN {"chart: daily pattern"} ELSE {"info: no daily pattern"})
         \cup (IF {"dow", "hour", "average_speed"} \subseteq _df.cols
               THEN {"chart: heatmap"} ELSE {"info: no heatmap"})
    /\ pc' = "tab_corr"
    /\ UNCHANGED <<env, db, client, ui, _df, raised, fn_in, fn_out>>
    /\ UNCHANGED cache_vars

---------------------------------------------------------------------------
(* Correlation tab *)

\* Cells of the column chosen as the datetime column of the upload.
ExtCells == {Bad, Ok(1), Ok(MaxHour + 2)}

\* An uploaded file with at least one row: the kind of its datetime column
\* ("text": strings, parsed cell by cell; "bool": True/False, which
\* errors='coerce' turns into NaT like any other cell that is no timestamp),
\* its rows and whether it has a numeric feature column.
Uploads ==
    { [present |-> TRUE, dt |-> "text", feat |-> TRUE, rows |-> SetToSeq(S)]
        : S \in { T \in SUBSET { [ts |-> c, temp |-> Some(7)] : c \in ExtCells }
                    : T # {} /\ Cardinality(T) <= MaxExt } }
    \cup { [present |-> TRUE, dt |-> "text", feat |-> FALSE,
            rows |-> << [ts |-> Ok(1), temp |-> NaN] >>],
           [present |-> TRUE, dt |-> "bool", feat |-> TRUE,
            rows |-> << [ts |-> Bad, temp |-> Some(7)] >>] }

NoUpload == [present |-> FALSE, dt |-> "text", feat |-> FALSE, rows |-> <<>>]

\* ext[dt_col] = pd.to_datetime(ext[dt_col], errors='coerce');
\* ext = ext.dropna(subset=[dt_col]).sort_values(dt_col)
ParseExt(up) ==
    LET conv == [i \in 1..Len(up.rows) |->
                   [datetime |-> to_datetime(up.rows[i].ts), temp |-> up.rows[i].temp]]
    IN Stamped(conv)

\* No cell of the chosen column is a timestamp.
Unparseable(up) ==
    up.present /\ up.rows # <<>> /\ \A i \in 1..Len(up.rows) : up.rows[i].ts.k # "ok"

\* The index of a resampled grid: its buckets in ascending order.
GridIndex(g) == [i \in 1..GridLen(g) |-> g.lo + i - 1]

\* A join that keeps every row of the left table (how='left').
Join_left(base, ext_r) == GridIndex(base)

\* base.join(ext_r, how='inner'): the index of the joined table, one entry
\* for each entry of the left index and each entry of the right index equal
\* to it, in the order of the left index; JoinRow gives the row of an entry.
Join(base, ext_r) ==
    LET left  == GridIndex(base)
        right == GridIndex(ext_r)
        Matches(b) == SelectSeq(right, LAMBDA x : x = b)
        Merge[i \in 0..Len(left)] ==
            IF i = 0 THEN <<>>
            ELSE Merge[i - 1] \o [j \in 1..Len(Matches(left[i])) |-> left[i]]
    IN Merge[Len(left)]

JoinRow(base, ext_r, b) == [base |-> GridCell(base, b), ext |-> GridCell(ext_r, b)]

\* The try around pd.to_datetime(..., errors='coerce') has an except branch
\* (st.error, st.stop) that no column is known to reach: coerce gives NaT for
\* every cell that is no timestamp, text and True/False alike.
CorrView ==
    /\ pc = "tab_corr"
    /\ processed' = processed \cup {"correlation"}
    /\ \E up \in Uploads \cup {NoUpload} :
         IF ~up.present
         THEN /\ view' = [kind |-> "corr", state |-> "no_upload", up |-> up]
              /\ shown' = shown \cup {"info: no external factors uploaded"}
              /\ UNCHANGED raised
              /\ pc' = "done"
         ELSE IF "datetime" \notin _df.cols
         THEN \* _df.set_index('datetime')
              /\ view' = [kind |-> "corr", state |-> "raised", up |-> up]
              /\ raised' = "KeyError"
              /\ UNCHANGED shown
              /\ pc' = "crashed"
         ELSE IF Stamped(_df.rows) = <<>>
         THEN \* resample over an index that holds only NaT
              /\ view' = [kind |-> "corr", state |-> "raised", up |-> up]
              /\ raised' = "ValueError"
              /\ UNCHANGED shown
              /\ pc' = "crashed"
         ELSE \E freq \in {"Hourly", "Daily"} :
                LET rule == IF freq = "Hourly" THEN "H" ELSE "D"
                    base == Resample(_df.rows, rule,
                                     [traffic_volume |-> "mean", average_speed |-> "mean",
                                      incidents |-> "sum"])
                    ext_r == Resample(ParseExt(up), rule, [temp |-> "mean"])
                    join == Join(base, ext_r)
                IN /\ view' = [kind |-> "corr",
                               state |-> IF up.feat THEN "correlated" ELSE "no_features",
                               up |-> up, rule |-> rule, base |-> base, ext_r |-> ext_r,
                               join |-> join]
                   /\ shown' = shown \cup
                        (IF up.feat
                         THEN {"chart: correlation", "chart: scatter", "table: merged"}
                         ELSE {"warning: no numeric external feature"})
                   /\ UNCHANGED raised
                   /\ pc' = "done"
    /\ UNCHANGED <<env, db, client, ui, _df, fn_in, fn_out>>
    /\ UNCHANGED cache_vars

---------------------------------------------------------------------------
(* The window arithmetic and the rolling aggregate, exercised alone *)

Idle ==
    /\ env = Healthy /\ db = NoCollection /\ client = "None" /\ ui = NoUi
    /\ _df = EmptyFrame /\ view = NoView /\ shown = {} /\ processed = {}
    /\ raised = "none" /\ fn_out = <<>>
    /\ ColdCaches

InitParams ==
    /\ Idle
    /\ pc = "fn"
    /\ fn_in \in [op : {"odd"}, k : (0 - MaxK)..MaxK] \cup [op : {"stl"}, n : 0..MaxN]

\* _odd(k) and _odd(_odd(k))
ApplyOdd ==
    /\ pc = "fn" /\ fn_in.op = "odd"
    /\ fn_out' = [once |-> _odd(fn_in.k), twice |-> _odd(_odd(fn_in.k))]
    /\ pc' = "fn_done"
    /\ UNCHANGED <<env, db, client, ui, _df, view, shown, processed, raised, fn_in>>
    /\ UNCHANGED cache_vars

\* The STL branch of the decomposition block on a series of length n.
ApplyStl ==
    /\ pc = "fn" /\ fn_in.op = "stl"
    /\ fn_out' = IF Enough(fn_in.n) THEN <<StlParams(fn_in.n)>> ELSE <<>>
    /\ pc' = "fn_done"
    /\ UNCHANGED <<env, db, client, ui, _df, view, shown, processed, raised, fn_in>>
    /\ UNCHANGED cache_vars

NextParams ==
    \/ ApplyOdd
    \/ ApplyStl

SpecParams == InitParams /\ [][NextParams]_vars

\* Residuals the rolling aggregate is given alone: signed values and gaps.
ResidVals == {NaN, Some(0 - 5), Some(0 - 3), Some(5)}

RECURSIVE SeqsUpTo(_, _)
SeqsUpTo(S, n) ==
    IF n = 0 THEN {<<>>}
    ELSE LET shorter == SeqsUpTo(S, n - 1)
         IN shorter \cup { Append(q, x) : q \in { r \in shorter : Len(r) = n - 1 }, x \in S }

InitRoll ==
    /\ Idle
    /\ pc = "fn"
    /\ fn_in \in [op : {"roll"}, resid : SeqsUpTo(ResidVals, MaxLen),
                  roll_h : 1..MaxLen, roll_stat : RollStats]

ApplyRoll ==
    /\ pc = "fn" /\ fn_in.op = "roll"
    /\ fn_out' = resid_roll(fn_in.resid, fn_in.roll_h, fn_in.roll_stat)
    /\ pc' = "fn_done"
    /\ UNCHANGED <<env, db, client, ui, _df, view, shown, processed, raised, fn_in>>
    /\ UNCHANGED cache_vars

NextRoll == ApplyRoll

SpecRoll == InitRoll /\ [][NextRoll]_vars

---------------------------------------------------------------------------
(* Caching: get_mongo_client under st.cache_resource and load_data under
   st.cache_data(ttl=3600), with several sessions served by one process *)

\* Lifetime of an entry of load_data's cache, in seconds.
ttl == 3600

\* Time passes in steps of this many seconds.
TickSeconds == 1800

\* Browser sessions, each running the script in a thread of its own.
MaxSessions == 2
Sessions == 1..MaxSessions

SampleDoc(h) ==
    [Date_Time |-> Ok(h), traffic_volume |-> Ok(100), average_speed |-> Ok(200),
     incidents |-> Ok(0)]

\* What the dataset stores under each month: it does not change while the
\* server runs.  January holds one or two documents, December none or one.
StoredMonths ==
    { [m \in Months |-> IF m = "January" THEN [exists |-> TRUE, docs |-> jan] ELSE dec]
        : jan \in { <<SampleDoc(0)>>, <<SampleDoc(0), SampleDoc(1)>> },
          dec \in { [exists |-> FALSE, docs |-> <<>>],
                    [exists |-> TRUE, docs |-> <<SampleDoc(0 - 1)>>] } }

\* The deployment and the collection of month m as a call meets them now: an
\* outage fails the ping and every read.
EnvNow == [secret |-> "set", ping |-> ~down]
DbNow(m) ==
    [exists |-> stored[m].exists, docs |-> stored[m].docs,
     fault |-> IF down THEN "read" ELSE "none"]

\* The frame load_data returns when its body runs now.
Uncached(m) == load_data("client", DbNow(m)).df

\* An entry of a cache: none, or the value kept and its age.
NoEntry == <<>>
Entry(df) == << [df |-> df, age |-> 0] >>
Live(e) == e # NoEntry /\ e[1].age < ttl

IdleRun == [pc |-> "idle"]

InitCache ==
    /\ env = Healthy /\ db = NoCollection /\ pc = "serving" /\ client = "None"
    /\ ui = NoUi /\ _df = EmptyFrame /\ view = NoView /\ shown = {}
    /\ processed = {} /\ raised = "none" /\ fn_in = <<>> /\ fn_out = <<>>
    /\ stored \in StoredMonths
    /\ down = FALSE
    /\ resource = "unset"
    /\ cache = [m \in Months |-> NoEntry]
    /\ runs = [s \in Sessions |-> IdleRun]

\* client = get_mongo_client(): the lookup in the resource cache.  An
\* entry, None included, is returned without running the body and never
\* expires.
Connect(s) ==
    /\ runs[s].pc = "idle"
    /\ runs' = [runs EXCEPT ![s] = IF resource # "unset"
                                   THEN [pc |-> "guard", client |-> resource]
                                   ELSE [pc |-> "connecting"]]
    /\ UNCHANGED <<stored, down, resource, cache>>
    /\ UNCHANGED page_vars

\* A miss: the body of get_mongo_client runs, MongoClient(uri) and the ping
\* meeting the source as it is when they return, and whatever it returns
\* becomes the entry.  Other sessions run while the body waits; the bodies
\* of two sessions that both missed are kept in either order.
Ping(s) ==
    /\ runs[s].pc = "connecting"
    /\ LET c == get_mongo_client(EnvNow).ret
       IN /\ resource' = c
          /\ runs' = [runs EXCEPT ![s] = [pc |-> "guard", client |-> c]]
    /\ UNCHANGED <<stored, down, cache>>
    /\ UNCHANGED page_vars

\* if not client: st.stop()
Guard(s) ==
    /\ runs[s].pc = "guard"
    /\ runs' = [runs EXCEPT ![s] = IF runs[s].client = "None" THEN [pc |-> "stopped"]
                                   ELSE [pc |-> "load"]]
    /\ UNCHANGED <<stored, down, resource, cache>>
    /\ UNCHANGED page_vars

\* _df = load_data(client, selected_db, selected_month): the key leaves
\* _client out.  A live entry is returned without running the body; the
\* frame an uncached call would return at this moment is noted beside it.
CallLoad(s) ==
    /\ runs[s].pc = "load"
    /\ \E m \in Months :
         runs' = [runs EXCEPT ![s] =
                    IF Live(cache[m])
                    THEN [pc |-> "done", month |-> m, hit |-> TRUE,
                          ret |-> cache[m][1].df, fresh |-> Uncached(m)]
                    ELSE [pc |-> "compute", month |-> m]]
    /\ UNCHANGED <<stored, down, resource, cache>>
    /\ UNCHANGED page_vars

\* A miss: the body of load_data runs and whatever it returns, the empty
\* frame of a failed read included, becomes the entry of the key.  Two
\* sessions that both missed each run the body, in either order.
Populate(s) ==
    /\ runs[s].pc = "compute"
    /\ LET m == runs[s].month
           df == Uncached(m)
       IN /\ cache' = [cache EXCEPT ![m] = Entry(df)]
          /\ runs' = [runs EXCEPT ![s] = [pc |-> "done", month |-> m, hit |-> FALSE,
                                          ret |-> df, fresh |-> df]]
    /\ UNCHANGED <<stored, down, resource>>
    /\ UNCHANGED page_vars

\* The run ends; the next interaction of the session reruns the script.
EndRun(s) ==
    /\ runs[s].pc \in {"done", "stopped"}
    /\ runs' = [runs EXCEPT ![s] = IdleRun]
    /\ UNCHANGED <<stored, down, resource, cache>>
    /\ UNCHANGED page_vars

\* Time passes: entries age, and an entry as old as ttl is gone.
Tick ==
    /\ \E m \in Months : cache[m] # NoEntry
    /\ cache' = [m \in Months |->
                   IF cache[m] # NoEntry /\ cache[m][1].age + TickSeconds < ttl
                   THEN << [cache[m][1] EXCEPT !.age = @ + TickSeconds] >>
                   ELSE NoEntry]
    /\ UNCHANGED <<stored, down, resource, runs>>
    /\ UNCHANGED page_vars

\* The data source stops answering, and answers again.
Outage ==
    /\ ~down
    /\ down' = TRUE
    /\ UNCHANGED <<stored, resource, cache, runs>>
    /\ UNCHANGED page_vars

Recovery ==
    /\ down
    /\ down' = FALSE
    /\ UNCHANGED <<stored, resource, cache, runs>>
    /\ UNCHANGED page_vars

NextCache ==
    \/ \E s \in Sessions : Connect(s)
    \/ \E s \in Sessions : Ping(s)
    \/ \E s \in Sessions : Guard(s)
    \/ \E s \in Sessions : CallLoad(s)
    \/ \E s \in Sessions : Populate(s)
    \/ \E s \in Sessions : EndRun(s)
    \/ Tick
    \/ Outage
    \/ Recovery

SpecCache == InitCache /\ [][NextCache]_vars

---------------------------------------------------------------------------
(* The script run *)

Next ==
    \/ GetClient
    \/ ClientGuard
    \/ Sidebar
    \/ Load
    \/ ApplyGuards
    \/ KPIs
    \/ TimeSeriesView
    \/ DecompView
    \/ SpatialView
    \/ TrendView
    \/ CorrView

Spec == Init /\ [][Next]_vars

---------------------------------------------------------------------------
(* Properties *)

NeedMsg == "info: not enough hourly points (need >= 48)"
NoDataMsg == "warning: no data found"
ConnErrors == {"error: MONGO_URI not found", "error: failed to connect"}
CorrOutputs == {"chart: correlation", "chart: scatter", "table: merged"}

\* The decomposition block built the hourly series of the month/year.
SeriesBuilt == view.kind = "dec" /\ view.state \in {"insufficient", "decomposed", "raised"}

\* C1: whenever the forward-filled hourly series of the selected month/year
\* has fewer than 48 points, no decomposition is run and no result or chart is
\* produced; the user is told that at least 48 points are needed.
C1_InsufficientData ==
    (SeriesBuilt /\ Len(ts_hourly(view.src)) < 2 * period)
        => /\ view.state = "insufficient"
           /\ NeedMsg \in shown
           /\ "chart: decomposition" \notin shown
           /\ "resid_roll" \notin DOMAIN view
           /\ "params" \notin DOMAIN view
           /\ raised = "none"

C1_Witness ==
    /\ view.kind = "dec" /\ view.state = "insufficient"
    /\ view.n >= 2 /\ view.n < 48
    /\ NeedMsg \in shown

\* The read of the collection cannot give rows.
LoadFails(d) == ~d.exists \/ d.docs = <<>> \/ d.fault # "none"

BeforeLoad == {"start", "client_guard", "sidebar", "load"}

\* C2: for every failing outcome of a load (no client, no such collection, no
\* documents, an exception while reading or preparing) load_data returns an
\* empty frame without raising, and the page then shows the 'no data' warning
\* and stops before any KPI or view.
C2_LoadFailureIsNoData ==
    /\ \A c \in {"None", "client"} :
         (c = "None" \/ LoadFails(db))
            => /\ Empty(load_data(c, db).df)
               /\ load_data(c, db).raised = "none"
    /\ (client = "client" /\ LoadFails(db) /\ pc \notin BeforeLoad)
          => /\ pc = "stopped"
             /\ raised = "none"
             /\ Empty(_df)
             /\ NoDataMsg \in shown
             /\ "kpi" \notin shown
             /\ processed = {}
             /\ view = NoView

C2_Witness ==
    /\ pc = "stopped" /\ client = "client"
    /\ db.exists /\ db.docs # <<>> /\ db.fault = "prep"
    /\ NoDataMsg \in shown

\* C3 as stated: when get_mongo_client yields no client, the condition is
\* shown and only the view that needs the data halts: other views are still
\* processed in the run.
C3_OtherViewsProcessed ==
    (pc = "stopped" /\ client = "None")
        => /\ shown \cap ConnErrors # {}
           /\ processed # {}

\* C3 amended: when get_mongo_client returns None, the condition is shown as a
\* non-fatal error message and the whole run stops at the client guard: no
\* load, no KPI and no view is processed.
C3_WholeRunStops ==
    (client = "None" /\ raised = "none" /\ pc \notin {"start", "client_guard"})
        => /\ pc = "stopped"
           /\ shown \cap ConnErrors # {}
           /\ processed = {}
           /\ "kpi" \notin shown
           /\ NoDataMsg \notin shown
           /\ _df = EmptyFrame

C3_Witness ==
    /\ pc = "stopped" /\ client = "None"
    /\ env.secret = "set" /\ ~env.ping
    /\ "error: failed to connect" \in shown

\* C4: when the datetime column chosen for an upload cannot be parsed as
\* timestamps, the failure is reported, the run stops for that upload and no
\* correlation, scatter plot or merged table is computed from it.
C4_UnparseableReported ==
    (view.kind = "corr" /\ Unparseable(view.up))
        => /\ "error: cannot parse the datetime column" \in shown
           /\ pc = "stopped"
           /\ view.state = "parse_error"
           /\ shown \cap CorrOutputs = {}

\* The frame holds no valid timestamp.
NoTimestamps(f) == "datetime" \notin f.cols \/ Stamped(f.rows) = <<>>

\* A view block that resamples the records has run.
ResamplingViewRan ==
    \/ view.kind \in {"ts", "dec"}
    \/ view.kind = "corr" /\ view.up.present

\* C5: when the filtered records hold no valid timestamp, every view that
\* resamples them ends in a 'no data' state and none raises.
C5_NoTimestampsNoRaise ==
    (NoTimestamps(_df) /\ ResamplingViewRan)
        => /\ raised = "none"
           /\ view.state \in {"no_datetime", "no_rows", "hidden"}

\* C6 as stated: for every n >= 48 both windows are odd, seasonal_window is
\* at most n // 8 and trend_window at most n // 2.
C6_WindowsWithinCeilings ==
    (pc = "fn_done" /\ fn_in.op = "stl" /\ fn_in.n >= 48)
        => /\ fn_out # <<>>
           /\ fn_out[1].seasonal % 2 = 1
           /\ fn_out[1].trend % 2 = 1
           /\ fn_out[1].seasonal <= fn_in.n \div 8
           /\ fn_out[1].trend <= fn_in.n \div 2

\* C6 amended: for every n >= 48 both windows are odd, seasonal_window is at
\* most max(7, n // 8 + 1) and trend_window at most n // 2 + 1; from n = 242 on
\* (so for n = 744) seasonal_window <= n // 8 and trend_window <= n // 2.
C6_WindowsNearCeilings ==
    (pc = "fn_done" /\ fn_in.op = "stl" /\ fn_in.n >= 48)
        => /\ fn_out # <<>>
           /\ fn_out[1].seasonal % 2 = 1
           /\ fn_out[1].trend % 2 = 1
           /\ fn_out[1].seasonal <= Max2(7, fn_in.n \div 8 + 1)
           /\ fn_out[1].trend <= fn_in.n \div 2 + 1
           /\ fn_in.n >= 242 => /\ fn_out[1].seasonal <= fn_in.n \div 8
                                /\ fn_out[1].trend <= fn_in.n \div 2

C6_Witness ==
    /\ pc = "fn_done" /\ fn_in.op = "stl" /\ fn_in.n = 744
    /\ fn_out[1].seasonal = 25 /\ fn_out[1].trend = 121

\* C7: for every integer k, _odd(k) is an odd integer >= 3 and
\* _odd(_odd(k)) = _odd(k).
C7_OddIdempotent ==
    (pc = "fn_done" /\ fn_in.op = "odd")
        => /\ fn_out.once % 2 = 1
           /\ fn_out.once >= 3
           /\ fn_out.twice = fn_out.once

C7_Witness ==
    /\ pc = "fn_done" /\ fn_in.op = "odd"
    /\ fn_in.k = 0 - 4 /\ fn_out.once = 3 /\ fn_out.twice = 3

\* C8: the series handed to either decomposition algorithm has a defined
\* value in every hourly bucket.
C8_SeriesGapFree ==
    (view.kind = "dec" /\ view.state \in {"decomposed", "raised"})
        => GapFree(view.ts_hourly)

\* Some row of rows falls into bucket b.
HasRecord(rows, rule, b) ==
    \E i \in 1..Len(rows) :
        ~IsNA(rows[i].datetime) /\ Bucket(Val(rows[i].datetime), rule) = b

\* Every field of the cell of each bucket of grid g that holds no row of rows
\* satisfies P(field, value).
EmptyBuckets(g, rows, rule, P(_, _)) ==
    \A b \in g.lo..g.hi :
        ~HasRecord(rows, rule, b)
            => \A c \in DOMAIN GridCell(g, b) : P(c, GridCell(g, b)[c])

\* C9 as stated: in the time-series grid and the correlation base grid a
\* bucket without source record holds a missing value for every aggregated
\* field, incidents included.
C9_EmptyBucketsAllMissing ==
    /\ (view.kind = "ts" /\ view.state = "chart")
          => EmptyBuckets(view.ts, view.src, view.rule, LAMBDA c, v : IsNA(v))
    /\ (view.kind = "corr" /\ "base" \in DOMAIN view)
          => EmptyBuckets(view.base, _df.rows, view.rule, LAMBDA c, v : IsNA(v))

\* C9 amended: in both grids a bucket without source record holds a missing
\* value, never zero and never a forward-filled one, for the mean-aggregated
\* fields traffic_volume and average_speed; the sum-aggregated incidents of
\* the correlation base grid holds 0 there.
C9_EmptyBucketsMeanMissing ==
    /\ (view.kind = "ts" /\ view.state = "chart")
          => EmptyBuckets(view.ts, view.src, view.rule, LAMBDA c, v : IsNA(v))
    /\ (view.kind = "corr" /\ "base" \in DOMAIN view)
          => EmptyBuckets(view.base, _df.rows, view.rule,
                          LAMBDA c, v : IF c = "incidents" THEN v = Some(0) ELSE IsNA(v))

C9_Witness ==
    /\ view.kind = "corr" /\ "base" \in DOMAIN view
    /\ \E b \in view.base.lo..view.base.hi :
         /\ ~HasRecord(_df.rows, view.rule, b)
         /\ ~IsNA(GridCell(view.base, view.base.lo).traffic_volume)
         /\ IsNA(GridCell(view.base, b).traffic_volume)
         /\ IsNA(GridCell(view.base, b).average_speed)
         /\ GridCell(view.base, b).incidents = Some(0)

\* Positions of the trailing window of up to w points ending at i that hold a
\* residual.
Held(resid, i, w) == { j \in 1..Len(resid) : i - w < j /\ j <= i /\ ~IsNA(resid[j]) }

\* Sum of f[j] over the positions j of J.
RECURSIVE SumOver(_, _)
SumOver(J, f) ==
    IF J = {} THEN 0
    ELSE LET j == CHOOSE x \in J : TRUE IN f[j] + SumOver(J \ {j}, f)

\* C10: at every position the 'abs_sum' aggregate is the sum of the absolute
\* values of the residuals held by the trailing window of up to w points
\* (missing when it holds none), and mean, sum and std are taken over the
\* signed residuals.
C10_AbsSumIsSumOfAbs ==
    (pc = "fn_done" /\ fn_in.op = "roll")
        => LET r == fn_in.resid
               w == fn_in.roll_h
               J(i) == Held(r, i, w)
               n(i) == Cardinality(J(i))
               sg(i) == SumOver(J(i), [j \in J(i) |-> Val(r[j])])
               ab(i) == SumOver(J(i), [j \in J(i) |-> Abs(Val(r[j]))])
               sq(i) == SumOver(J(i), [j \in J(i) |-> Val(r[j]) * Val(r[j])])
           IN /\ DOMAIN fn_out = 1..Len(r)
              /\ \A i \in 1..Len(r) :
                   IF n(i) = 0 THEN fn_out[i] = NaN
                   ELSE IF fn_in.roll_stat = "abs_sum" THEN fn_out[i] = Some(ab(i))
                   ELSE IF fn_in.roll_stat = "sum" THEN fn_out[i] = Some(sg(i))
                   ELSE IF fn_in.roll_stat = "mean" THEN fn_out[i] = Some(<<sg(i), n(i)>>)
                   ELSE IF n(i) < 2 THEN fn_out[i] = NaN
                   ELSE fn_out[i] = Some(<<n(i) * sq(i) - sg(i) * sg(i), n(i) * (n(i) - 1)>>)

C10_Witness ==
    /\ pc = "fn_done" /\ fn_in.op = "roll"
    /\ fn_in.resid = <<Some(0 - 5), Some(5), Some(0 - 3)>>
    /\ fn_in.roll_h = 3 /\ fn_in.roll_stat = "abs_sum"
    /\ fn_out[3] = Some(13)

\* The number of rows of the joined table indexed by bucket b.
RowsAt(join, b) == Cardinality({ i \in 1..Len(join) : join[i] = b })

\* C11: the joined table of the correlation view has exactly one row for each
\* bucket present in both the resampled base grid and the resampled external
\* grid, and no row for any other bucket.
C11_JoinIsIntersection ==
    (view.kind = "corr" /\ "join" \in DOMAIN view)
        => LET inBase == view.base.lo..view.base.hi
               inExt  == view.ext_r.lo..view.ext_r.hi
               both   == { b \in inBase : b \in inExt }
           IN /\ \A b \in inBase \cup inExt :
                    RowsAt(view.join, b) = IF b \in both THEN 1 ELSE 0
              /\ \A i \in 1..Len(view.join) : view.join[i] \in both
              /\ Len(view.join) = Cardinality(both)

\* The two grids overlap in part: the joined table is not empty and shorter
\* than either grid.
C11_Witness ==
    /\ view.kind = "corr" /\ "join" \in DOMAIN view
    /\ view.rule = "H"
    /\ GridLen(view.base) >= 48 /\ GridLen(view.ext_r) >= 48
    /\ Len(view.join) > 0
    /\ Len(view.join) < GridLen(view.base)
    /\ Len(view.join) < GridLen(view.ext_r)

\* Every call of load_data that has returned gave the frame an uncached
\* read gave at that moment.
CallsAreFresh ==
    \A s \in Sessions : runs[s].pc = "done" => runs[s].ret = runs[s].fresh

\* Populating the cache of a key that holds an entry leaves its frame as it was.
RepopulationKeeps ==
    \A m \in Months :
        (cache[m] # NoEntry /\ cache'[m] # NoEntry) => cache'[m][1].df = cache[m][1].df

\* C12: with the stored data unchanged, through load calls, transient read
\* failures, population races and TTL expiries every call of load_data
\* returns the frame an uncached read would return at that moment, and
\* populating the cache again for a key changes no result.
C12_CachingPreservesResults == []CallsAreFresh /\ [][RepopulationKeeps]_vars

\* The source has recovered and the month holds records, yet a call is
\* answered from the entry left by a failed read: an empty frame.
C12_StaleFailureServed ==
    \E s \in Sessions :
        /\ runs[s].pc = "done" /\ runs[s].hit
        /\ ~down
        /\ Empty(runs[s].ret)
        /\ ~Empty(runs[s].fresh)

\* C13: for every series length n >= 48, the only lengths for which STL
\* runs, the parameters passed to STL are admissible: period 24, seasonal
\* window odd and >= 7, trend window odd, >= 7 and greater than the period,
\* robust True.
C13_StlParamsAdmissible ==
    (pc = "fn_done" /\ fn_in.op = "stl")
        => IF fn_in.n >= 48
           THEN /\ fn_out # <<>>
                /\ fn_out[1].period = 24
                /\ fn_out[1].seasonal % 2 = 1 /\ fn_out[1].seasonal >= 7
                /\ fn_out[1].trend % 2 = 1 /\ fn_out[1].trend >= 7
                /\ fn_out[1].trend > fn_out[1].period
                /\ fn_out[1].robust = TRUE
           ELSE fn_out = <<>>

\* The shortest series decomposed: both windows sit at their smallest.
C13_Witness ==
    /\ pc = "fn_done" /\ fn_in.op = "stl" /\ fn_in.n = 48
    /\ fn_out = << [period |-> 24, seasonal |-> 7, trend |-> 25, robust |-> TRUE] >>

\* The hours of the records of the selected month in its latest year.
SelectedHours ==
    LET hs == { Val(_df.rows[i].datetime) :
                  i \in { j \in 1..Len(_df.rows) :
                            /\ ~IsNA(_df.rows[j].datetime)
                            /\ DtMonth(Val(_df.rows[j].datetime)) = MonthIndex(ui.selected_month) } }
        y == SetMax({ DtYear(h) : h \in hs })
    IN { h \in hs : DtYear(h) = y }

\* C14: the length n tested by the insufficient-data guard is the number of
\* hourly buckets from the earliest to the latest timestamp of the selected
\* month/year, inclusive, not the number of records: the decomposition is
\* called exactly when that span is at least 48, however few records or
\* defined volume values there are.
C14_GuardCountsBuckets ==
    SeriesBuilt
        => LET span == SetMax(SelectedHours) - SetMin(SelectedHours) + 1
           IN /\ view.n = span
              /\ view.state \in {"decomposed", "raised"} <=> span >= 48
              /\ view.state = "insufficient" <=> span < 48
              /\ view.state = "decomposed" => "chart: decomposition" \in shown

\* Two records 47 hours apart, one of them without a volume, are decomposed
\* as a series of 48 points.
C14_Witness ==
    /\ view.kind = "dec" /\ view.state = "decomposed"
    /\ Len(view.src) = 2
    /\ Len(Defined(view.src, "traffic_volume")) = 1
    /\ view.n = 48

=============================================================================
